---- MODULE Spec2Model ----
(***************************************************************************)
(* Model of sentry.grouping.ingest.seer: the gate that decides whether an  *)
(* incoming event is sent to the Seer similarity service                   *)
(* (should_call_seer_for_grouping and its helper checks) and the           *)
(* orchestration of the call and of the group lookup                       *)
(* (get_seer_similar_issues, maybe_check_seer_for_matching_group).         *)
(*                                                                         *)
(* Python values are modelled as follows: None is the record None; a dict  *)
(* is a function from its keys; an object is a record of its attributes;   *)
(* a list is a sequence.  A function with side effects is an operator that *)
(* takes the mutable context (rate-limit counters, circuit breaker, emitted *)
(* metrics, trace of functions invoked) and returns its result, the exception *)
(* it raised if any, and the context it leaves behind.                     *)
(***************************************************************************)
EXTENDS Integers, Sequences, FiniteSets, TLC

-----------------------------------------------------------------------------
(* Bounds *)

\* "limit" of the per-project rate limit option; no attempt is counted on a
\* key whose counter is already over its limit
ProjectLimit == 2
\* "limit" of the global rate limit option
GlobalLimit == ProjectLimit + 1
\* ids of the projects that send events
ProjectIds == {1, 2}
\* ids a group can have
GroupIds == {5, 9}

-----------------------------------------------------------------------------
(* Python values *)

None == [none |-> TRUE]
NoException == "no exception"

\* dict.get(key, default)
Get(d, k, default) == IF k \in DOMAIN d THEN d[k] ELSE default
\* d[key] = value
Put(d, k, v) == [j \in DOMAIN d \cup {k} |-> IF j = k THEN v ELSE d[j]]
EmptyDict == [j \in {} |-> None]

\* [f(x) for x in seq]
RECURSIVE ListComp(_, _)
ListComp(f(_), s) == IF s = <<>> THEN <<>> ELSE <<f(Head(s))>> \o ListComp(f, Tail(s))

-----------------------------------------------------------------------------
(* Program constants *)

SEER_SIMILARITY_MODEL_VERSION == "v0"
DefaultToken == "{{ default }}"
DidCallSeer == "grouping.similarity.did_call_seer"

-----------------------------------------------------------------------------
VARIABLES
    event,        \* the Event being ingested: event_id, project, data, eligible
    hashes,       \* its CalculatedHashes: hashes, variants
    killswitch,   \* what killswitch_enabled answers
    breaker,      \* state of the Seer circuit breaker: "ok" or "broken"
    opts,         \* the options store: the two rate limits and the breaker config
    limiter,      \* the rate limiter's store: counter of every key
    groups,       \* the Group table
    seer,         \* what the Seer service answers: raises, results
    db,           \* whether the database answers queries: "up" or "down"
    relay,        \* the Relay project config being built, and the last
                  \* add_experimental_config call on it
    workers,      \* the workers that evaluate events side by side: where each
                  \* stands in _ratelimiting_enabled, and the window's tally
    out           \* what the last call of the handler did and returned

vars == <<event, hashes, killswitch, breaker, opts, limiter, groups, seer, db,
          relay, workers, out>>

-----------------------------------------------------------------------------
(* Collaborators of the module: what they do when called *)

\* result of a call: the value returned, the exception raised (then ret is
\* None), and the context the call leaves behind
Return(v, ctx) == [ret |-> v, exc |-> NoException, ctx |-> ctx]
Raise(e, ctx) == [ret |-> None, exc |-> e, ctx |-> ctx]

\* the context notes that a function was entered
Called(ctx, call) == [ctx EXCEPT !.calls = Append(@, call)]

\* metrics.incr(name, tags=tags)
metrics_incr(ctx, name, tags) ==
    [ctx EXCEPT !.metrics = Append(@, [name |-> name, tags |-> tags])]

GlobalKey == <<"seer:similarity:global-limit">>
ProjectKey(id) == <<"seer:similarity:project-", id, "-limit">>
LimiterKeys == {GlobalKey} \cup {ProjectKey(id) : id \in ProjectIds}

\* ratelimiter.backend.is_limited(key, limit, window): counts the attempt and
\* reports whether the quota of the current window is exceeded
is_limited(ctx, key, limit, window) ==
    LET n == ctx.limiter[key] + 1
        c == Called(ctx, [fn |-> "is_limited", key |-> key])
    IN  Return(n > limit, [c EXCEPT !.limiter[key] = n])

\* CircuitBreaker(key, config).should_allow_request(): reads the breaker
CircuitBreaker_should_allow_request(ctx, config) ==
    IF "error_limit" \notin DOMAIN config
    THEN Raise("KeyError", Called(ctx, [fn |-> "CircuitBreaker"]))
    ELSE Return(ctx.breaker = "ok",
                Called(Called(ctx, [fn |-> "CircuitBreaker"]),
                       [fn |-> "should_allow_request"]))

\* options.get(name)
options_get(name) == opts[name]

\* a / b on numbers read from a dict, with the exceptions Python raises;
\* the quotient is kept as the pair of its terms
DictDivide(d, a, b) ==
    IF a \notin DOMAIN d \/ b \notin DOMAIN d THEN [exc |-> "KeyError", val |-> None]
    ELSE IF d[b] = 0 THEN [exc |-> "ZeroDivisionError", val |-> None]
    ELSE [exc |-> NoException, val |-> [num |-> d[a], den |-> d[b]]]

-----------------------------------------------------------------------------
(* The gate *)

\* mutant: the backfill option is ignored
_project_has_similarity_grouping_enabled_FlagOnly(ctx, project) ==
    LET c1 == Called(ctx, [fn |-> "_project_has_similarity_grouping_enabled"])
        has_seer_grouping_flag_on == project.flag
        c2 == Called(c1, [fn |-> "features.has"])
    IN  Return(has_seer_grouping_flag_on, c2)

_project_has_similarity_grouping_enabled(ctx, project) ==
    LET c1 == Called(ctx, [fn |-> "_project_has_similarity_grouping_enabled"])
        has_seer_grouping_flag_on == project.flag
        c2 == Called(c1, [fn |-> "features.has"])
        has_been_backfilled == project.backfilled
        c3 == Called(c2, [fn |-> "project.get_option"])
    IN  Return(has_seer_grouping_flag_on \/ has_been_backfilled, c3)

\* mutant: the variants are looked at before the default token
_has_customized_fingerprint_VariantFirst(ctx, ev, primary_hashes) ==
    LET c1 == Called(ctx, [fn |-> "_has_customized_fingerprint"])
        fingerprint == Get(ev.data, "fingerprint", <<>>)
        has_default == \E i \in 1..Len(fingerprint) : fingerprint[i] = DefaultToken
        custom == Get(primary_hashes.variants, "custom-fingerprint", None)
        fingerprint_variant ==
            IF custom # None THEN custom
            ELSE Get(primary_hashes.variants, "built-in-fingerprint", None)
    IN  IF fingerprint_variant # None
        THEN Return(TRUE, metrics_incr(c1, DidCallSeer,
                       [call_made |-> FALSE, blocker |-> fingerprint_variant.type]))
        ELSE IF has_default /\ Len(fingerprint) > 1
        THEN Return(TRUE, metrics_incr(c1, DidCallSeer,
                       [call_made |-> FALSE, blocker |-> "hybrid-fingerprint"]))
        ELSE Return(FALSE, c1)

\* mutant: the default token counts only as the first token of the fingerprint
_has_customized_fingerprint_DefaultFirstOnly(ctx, ev, primary_hashes) ==
    LET c1 == Called(ctx, [fn |-> "_has_customized_fingerprint"])
        fingerprint == Get(ev.data, "fingerprint", <<>>)
        has_default == Len(fingerprint) > 0 /\ fingerprint[1] = DefaultToken
        custom == Get(primary_hashes.variants, "custom-fingerprint", None)
        fingerprint_variant ==
            IF custom # None THEN custom
            ELSE Get(primary_hashes.variants, "built-in-fingerprint", None)
    IN  IF has_default
        THEN IF Len(fingerprint) = 1
             THEN Return(FALSE, c1)
             ELSE Return(TRUE, metrics_incr(c1, DidCallSeer,
                            [call_made |-> FALSE, blocker |-> "hybrid-fingerprint"]))
        ELSE IF fingerprint_variant # None
             THEN Return(TRUE, metrics_incr(c1, DidCallSeer,
                            [call_made |-> FALSE, blocker |-> fingerprint_variant.type]))
             ELSE Return(FALSE, c1)

\* mutant: the built-in-fingerprint variant is preferred to the custom one
_has_customized_fingerprint_BuiltInFirst(ctx, ev, primary_hashes) ==
    LET c1 == Called(ctx, [fn |-> "_has_customized_fingerprint"])
        fingerprint == Get(ev.data, "fingerprint", <<>>)
        has_default == \E i \in 1..Len(fingerprint) : fingerprint[i] = DefaultToken
        builtin == Get(primary_hashes.variants, "built-in-fingerprint", None)
        fingerprint_variant ==
            IF builtin # None THEN builtin
            ELSE Get(primary_hashes.variants, "custom-fingerprint", None)
    IN  IF has_default
        THEN IF Len(fingerprint) = 1
             THEN Return(FALSE, c1)
             ELSE Return(TRUE, metrics_incr(c1, DidCallSeer,
                            [call_made |-> FALSE, blocker |-> "hybrid-fingerprint"]))
        ELSE IF fingerprint_variant # None
             THEN Return(TRUE, metrics_incr(c1, DidCallSeer,
                            [call_made |-> FALSE, blocker |-> fingerprint_variant.type]))
             ELSE Return(FALSE, c1)

_has_customized_fingerprint(ctx, ev, primary_hashes) ==
    LET c1 == Called(ctx, [fn |-> "_has_customized_fingerprint"])
        fingerprint == Get(ev.data, "fingerprint", <<>>)
        has_default == \E i \in 1..Len(fingerprint) : fingerprint[i] = DefaultToken
        custom == Get(primary_hashes.variants, "custom-fingerprint", None)
        fingerprint_variant ==
            IF custom # None THEN custom
            ELSE Get(primary_hashes.variants, "built-in-fingerprint", None)
    IN  IF has_default
        THEN IF Len(fingerprint) = 1
             THEN Return(FALSE, c1)
             ELSE Return(TRUE, metrics_incr(c1, DidCallSeer,
                            [call_made |-> FALSE, blocker |-> "hybrid-fingerprint"]))
        ELSE IF fingerprint_variant # None
             THEN Return(TRUE, metrics_incr(c1, DidCallSeer,
                            [call_made |-> FALSE, blocker |-> fingerprint_variant.type]))
             ELSE Return(FALSE, c1)

\* event_content_is_seer_eligible(event)
event_content_is_seer_eligible(ctx, ev) ==
    Return(ev.eligible, Called(ctx, [fn |-> "event_content_is_seer_eligible"]))

\* killswitch_enabled(project.id, event)
killswitch_enabled(ctx, project_id, ev) ==
    Return(killswitch, Called(ctx, [fn |-> "killswitch_enabled"]))

\* mutant: both scopes are asked before either answer is looked at
_ratelimiting_enabled_BothScopes(ctx, ev, project) ==
    LET c1 == Called(ctx, [fn |-> "_ratelimiting_enabled"])
        global_ratelimit == options_get("seer.similarity.global-rate-limit")
        per_project_ratelimit == options_get("seer.similarity.per-project-rate-limit")
        global_limit_per_sec == DictDivide(global_ratelimit, "limit", "window")
        project_limit_per_sec == DictDivide(per_project_ratelimit, "limit", "window")
    IN  IF global_limit_per_sec.exc # NoException THEN Raise(global_limit_per_sec.exc, c1)
        ELSE IF project_limit_per_sec.exc # NoException
        THEN Raise(project_limit_per_sec.exc, c1)
        ELSE
        LET g == is_limited(c1, GlobalKey, global_ratelimit["limit"],
                            global_ratelimit["window"])
            p == is_limited(g.ctx, ProjectKey(project.id),
                            per_project_ratelimit["limit"],
                            per_project_ratelimit["window"])
        IN  IF g.ret
            THEN Return(TRUE,
                    metrics_incr(
                        metrics_incr(p.ctx, "grouping.similarity.global_ratelimit_hit",
                                     [limit_per_sec |-> global_limit_per_sec.val]),
                        DidCallSeer,
                        [call_made |-> FALSE, blocker |-> "global-rate-limit"]))
            ELSE IF p.ret
            THEN Return(TRUE,
                    metrics_incr(
                        metrics_incr(p.ctx, "grouping.similarity.project_ratelimit_hit",
                                     [limit_per_sec |-> project_limit_per_sec.val]),
                        DidCallSeer,
                        [call_made |-> FALSE, blocker |-> "project-rate-limit"]))
            ELSE Return(FALSE, p.ctx)

\* mutant: the per-project configuration is read after the global scope was asked
_ratelimiting_enabled_LazyProjectConfig(ctx, ev, project) ==
    LET c1 == Called(ctx, [fn |-> "_ratelimiting_enabled"])
        global_ratelimit == options_get("seer.similarity.global-rate-limit")
        per_project_ratelimit == options_get("seer.similarity.per-project-rate-limit")
        global_limit_per_sec == DictDivide(global_ratelimit, "limit", "window")
        project_limit_per_sec == DictDivide(per_project_ratelimit, "limit", "window")
    IN  IF global_limit_per_sec.exc # NoException THEN Raise(global_limit_per_sec.exc, c1)
        ELSE
        LET g == is_limited(c1, GlobalKey, global_ratelimit["limit"],
                            global_ratelimit["window"])
        IN  IF g.ret
            THEN Return(TRUE,
                    metrics_incr(
                        metrics_incr(g.ctx, "grouping.similarity.global_ratelimit_hit",
                                     [limit_per_sec |-> global_limit_per_sec.val]),
                        DidCallSeer,
                        [call_made |-> FALSE, blocker |-> "global-rate-limit"]))
            ELSE IF project_limit_per_sec.exc # NoException
            THEN Raise(project_limit_per_sec.exc, g.ctx)
            ELSE
            LET p == is_limited(g.ctx, ProjectKey(project.id),
                                per_project_ratelimit["limit"],
                                per_project_ratelimit["window"])
            IN  IF p.ret
                THEN Return(TRUE,
                        metrics_incr(
                            metrics_incr(p.ctx, "grouping.similarity.project_ratelimit_hit",
                                         [limit_per_sec |-> project_limit_per_sec.val]),
                            DidCallSeer,
                            [call_made |-> FALSE, blocker |-> "project-rate-limit"]))
                ELSE Return(FALSE, p.ctx)

\* mutant: an event blocked by its project's limit gives back its unit of the global quota
_ratelimiting_enabled_GlobalRefund(ctx, ev, project) ==
    LET c1 == Called(ctx, [fn |-> "_ratelimiting_enabled"])
        global_ratelimit == options_get("seer.similarity.global-rate-limit")
        per_project_ratelimit == options_get("seer.similarity.per-project-rate-limit")
        global_limit_per_sec == DictDivide(global_ratelimit, "limit", "window")
        project_limit_per_sec == DictDivide(per_project_ratelimit, "limit", "window")
    IN  IF global_limit_per_sec.exc # NoException THEN Raise(global_limit_per_sec.exc, c1)
        ELSE IF project_limit_per_sec.exc # NoException
        THEN Raise(project_limit_per_sec.exc, c1)
        ELSE
        LET g == is_limited(c1, GlobalKey, global_ratelimit["limit"],
                            global_ratelimit["window"])
        IN  IF g.ret
            THEN Return(TRUE,
                    metrics_incr(
                        metrics_incr(g.ctx, "grouping.similarity.global_ratelimit_hit",
                                     [limit_per_sec |-> global_limit_per_sec.val]),
                        DidCallSeer,
                        [call_made |-> FALSE, blocker |-> "global-rate-limit"]))
            ELSE
            LET p == is_limited(g.ctx, ProjectKey(project.id),
                                per_project_ratelimit["limit"],
                                per_project_ratelimit["window"])
            IN  IF p.ret
                THEN Return(TRUE,
                        metrics_incr(
                            metrics_incr([p.ctx EXCEPT !.limiter[GlobalKey] = @ - 1],
                                         "grouping.similarity.project_ratelimit_hit",
                                         [limit_per_sec |-> project_limit_per_sec.val]),
                            DidCallSeer,
                            [call_made |-> FALSE, blocker |-> "project-rate-limit"]))
                ELSE Return(FALSE, p.ctx)

_ratelimiting_enabled(ctx, ev, project) ==
    LET c1 == Called(ctx, [fn |-> "_ratelimiting_enabled"])
        global_ratelimit == options_get("seer.similarity.global-rate-limit")
        per_project_ratelimit == options_get("seer.similarity.per-project-rate-limit")
        global_limit_per_sec == DictDivide(global_ratelimit, "limit", "window")
        project_limit_per_sec == DictDivide(per_project_ratelimit, "limit", "window")
    IN  IF global_limit_per_sec.exc # NoException THEN Raise(global_limit_per_sec.exc, c1)
        ELSE IF project_limit_per_sec.exc # NoException
        THEN Raise(project_limit_per_sec.exc, c1)
        ELSE
        LET g == is_limited(c1, GlobalKey, global_ratelimit["limit"],
                            global_ratelimit["window"])
        IN  IF g.ret
            THEN Return(TRUE,
                    metrics_incr(
                        metrics_incr(g.ctx, "grouping.similarity.global_ratelimit_hit",
                                     [limit_per_sec |-> global_limit_per_sec.val]),
                        DidCallSeer,
                        [call_made |-> FALSE, blocker |-> "global-rate-limit"]))
            ELSE
            LET p == is_limited(g.ctx, ProjectKey(project.id),
                                per_project_ratelimit["limit"],
                                per_project_ratelimit["window"])
            IN  IF p.ret
                THEN Return(TRUE,
                        metrics_incr(
                            metrics_incr(p.ctx, "grouping.similarity.project_ratelimit_hit",
                                         [limit_per_sec |-> project_limit_per_sec.val]),
                            DidCallSeer,
                            [call_made |-> FALSE, blocker |-> "project-rate-limit"]))
                ELSE Return(FALSE, p.ctx)

\* mutant: the breaker's answer is reported but not returned
_circuit_breaker_broken_NotReturned(ctx, ev, project) ==
    LET c1 == Called(ctx, [fn |-> "_circuit_breaker_broken"])
        breaker_config == options_get("seer.similarity.circuit-breaker-config")
        allow == CircuitBreaker_should_allow_request(c1, breaker_config)
        circuit_broken == ~allow.ret
    IN  IF allow.exc # NoException THEN allow
        ELSE IF circuit_broken
        THEN Return(FALSE,
                metrics_incr(
                    metrics_incr(allow.ctx, "grouping.similarity.broken_circuit_breaker",
                                 EmptyDict),
                    DidCallSeer,
                    [call_made |-> FALSE, blocker |-> "circuit-breaker"]))
        ELSE Return(FALSE, allow.ctx)

\* mutant: a broken breaker blocks without a did_call_seer counter
_circuit_breaker_broken_Untagged(ctx, ev, project) ==
    LET c1 == Called(ctx, [fn |-> "_circuit_breaker_broken"])
        breaker_config == options_get("seer.similarity.circuit-breaker-config")
        allow == CircuitBreaker_should_allow_request(c1, breaker_config)
        circuit_broken == ~allow.ret
    IN  IF allow.exc # NoException THEN allow
        ELSE IF circuit_broken
        THEN Return(TRUE,
                metrics_incr(allow.ctx, "grouping.similarity.broken_circuit_breaker",
                             EmptyDict))
        ELSE Return(FALSE, allow.ctx)

_circuit_breaker_broken(ctx, ev, project) ==
    LET c1 == Called(ctx, [fn |-> "_circuit_breaker_broken"])
        breaker_config == options_get("seer.similarity.circuit-breaker-config")
        allow == CircuitBreaker_should_allow_request(c1, breaker_config)
        circuit_broken == ~allow.ret
    IN  IF allow.exc # NoException THEN allow
        ELSE IF circuit_broken
        THEN Return(TRUE,
                metrics_incr(
                    metrics_incr(allow.ctx, "grouping.similarity.broken_circuit_breaker",
                                 EmptyDict),
                    DidCallSeer,
                    [call_made |-> FALSE, blocker |-> "circuit-breaker"]))
        ELSE Return(FALSE, allow.ctx)

\* mutant: the rate limiter is asked before the circuit breaker
LastChecks_LimiterBeforeBreaker(ctx, ev, project) ==
    LET k == killswitch_enabled(ctx, project.id, ev)
    IN  IF k.ret THEN k
        ELSE LET l == _ratelimiting_enabled(k.ctx, ev, project)
             IN  IF l.exc # NoException \/ l.ret THEN l
                 ELSE _circuit_breaker_broken(l.ctx, ev, project)

\* killswitch_enabled(...) or _circuit_breaker_broken(...) or _ratelimiting_enabled(...)
\* mutant: the circuit breaker is asked before the killswitch
LastChecks_BreakerBeforeKillswitch(ctx, ev, project) ==
    LET b == _circuit_breaker_broken(ctx, ev, project)
    IN  IF b.exc # NoException \/ b.ret THEN b
        ELSE LET k == killswitch_enabled(b.ctx, project.id, ev)
             IN  IF k.ret THEN k
                 ELSE _ratelimiting_enabled(k.ctx, ev, project)

LastChecks(ctx, ev, project) ==
    LET k == killswitch_enabled(ctx, project.id, ev)
    IN  IF k.ret THEN k
        ELSE LET b == _circuit_breaker_broken(k.ctx, ev, project)
             IN  IF b.exc # NoException \/ b.ret THEN b
                 ELSE _ratelimiting_enabled(b.ctx, ev, project)

\* mutant: the fingerprint is classified before the project is looked at
should_call_seer_for_grouping_FingerprintFirst(ctx, ev, primary_hashes) ==
    LET project == ev.project
        c0 == Called(ctx, [fn |-> "should_call_seer_for_grouping"])
        customized == _has_customized_fingerprint(c0, ev, primary_hashes)
    IN  IF customized.ret THEN Return(FALSE, customized.ctx)
        ELSE
        LET enabled == _project_has_similarity_grouping_enabled(customized.ctx, project)
        IN  IF ~enabled.ret THEN Return(FALSE, enabled.ctx)
            ELSE
            LET eligible == event_content_is_seer_eligible(enabled.ctx, ev)
            IN  IF ~eligible.ret THEN Return(FALSE, eligible.ctx)
                ELSE
                LET last == LastChecks(eligible.ctx, ev, project)
                IN  IF last.exc # NoException THEN last
                    ELSE IF last.ret THEN Return(FALSE, last.ctx)
                    ELSE Return(TRUE, last.ctx)

should_call_seer_for_grouping(ctx, ev, primary_hashes) ==
    LET project == ev.project
        c0 == Called(ctx, [fn |-> "should_call_seer_for_grouping"])
        enabled == _project_has_similarity_grouping_enabled(c0, project)
    IN  IF ~enabled.ret THEN Return(FALSE, enabled.ctx)
        ELSE
        LET customized == _has_customized_fingerprint(enabled.ctx, ev, primary_hashes)
        IN  IF customized.ret THEN Return(FALSE, customized.ctx)
            ELSE
            LET eligible == event_content_is_seer_eligible(customized.ctx, ev)
            IN  IF ~eligible.ret THEN Return(FALSE, eligible.ctx)
                ELSE
                LET last == LastChecks(eligible.ctx, ev, project)
                IN  IF last.exc # NoException THEN last
                    ELSE IF last.ret THEN Return(FALSE, last.ctx)
                    ELSE Return(TRUE, last.ctx)

-----------------------------------------------------------------------------
(* The call to Seer and the group lookup *)

\* dataclasses.asdict(result): field name -> value
asdict(result) == [k \in DOMAIN result |-> result[k]]

\* get_similarity_data_from_seer(request_data)
get_similarity_data_from_seer(ctx, request_data) ==
    LET c == Called(ctx, [fn |-> "get_similarity_data_from_seer", request |-> request_data])
    IN  IF seer.raises THEN Raise("SeerError", c) ELSE Return(seer.results, c)

\* Group.objects.filter(id=id).first()
Group_objects_filter_first(ctx, id) ==
    LET c == Called(ctx, [fn |-> "Group.objects.filter", id |-> id])
        found == {g \in groups : g.id = id}
    IN  IF db # "up" THEN Raise("DatabaseError", c)
        ELSE IF found = {} THEN Return(None, c)
        ELSE Return(CHOOSE g \in found : TRUE, c)

\* mutant: when the best candidate's group is gone the next candidate is tried
get_seer_similar_issues_Fallback(ctx, ev, primary_hashes) ==
    LET c0 == Called(ctx, [fn |-> "get_seer_similar_issues"])
    IN  IF primary_hashes.hashes = <<>> THEN Raise("IndexError", c0)
        ELSE
        LET event_hash == primary_hashes.hashes[1]
            request_data == [event_id |-> ev.event_id,
                             hash |-> event_hash,
                             project_id |-> ev.project.id,
                             k |-> 1,
                             referrer |-> "ingest"]
            response == get_similarity_data_from_seer(c0, request_data)
        IN  IF response.exc # NoException THEN response
            ELSE
            LET seer_results == response.ret
                similar_issues_metadata ==
                    [results |-> ListComp(asdict, seer_results),
                     similarity_model_version |-> SEER_SIMILARITY_MODEL_VERSION]
                first_group ==
                    IF seer_results # <<>>
                    THEN Group_objects_filter_first(response.ctx,
                                                    seer_results[1].parent_group_id)
                    ELSE Return(None, response.ctx)
                parent_group ==
                    IF Len(seer_results) > 1 /\ first_group.ret = None
                    THEN Group_objects_filter_first(first_group.ctx,
                                                    seer_results[2].parent_group_id)
                    ELSE first_group
            IN  IF parent_group.exc # NoException THEN parent_group
                ELSE Return(<<similar_issues_metadata, parent_group.ret>>,
                            parent_group.ctx)

get_seer_similar_issues(ctx, ev, primary_hashes) ==
    LET c0 == Called(ctx, [fn |-> "get_seer_similar_issues"])
    IN  IF primary_hashes.hashes = <<>> THEN Raise("IndexError", c0)
        ELSE
        LET event_hash == primary_hashes.hashes[1]
            request_data == [event_id |-> ev.event_id,
                             hash |-> event_hash,
                             project_id |-> ev.project.id,
                             k |-> 1,
                             referrer |-> "ingest"]
            response == get_similarity_data_from_seer(c0, request_data)
        IN  IF response.exc # NoException THEN response
            ELSE
            LET seer_results == response.ret
                similar_issues_metadata ==
                    [results |-> ListComp(asdict, seer_results),
                     similarity_model_version |-> SEER_SIMILARITY_MODEL_VERSION]
                parent_group ==
                    IF seer_results # <<>>
                    THEN Group_objects_filter_first(response.ctx,
                                                    seer_results[1].parent_group_id)
                    ELSE Return(None, response.ctx)
            IN  IF parent_group.exc # NoException THEN parent_group
                ELSE Return(<<similar_issues_metadata, parent_group.ret>>,
                            parent_group.ctx)

\* what the handler hands back once should_call_seer_for_grouping returned
\* True: the value returned or the exception raised, the context, event.data
\* as the call leaves it, and the exceptions passed to
\* sentry_sdk.capture_exception
Handled(ret, exc, ctx, data, captured) ==
    [ret |-> ret, exc |-> exc, ctx |-> ctx, data |-> data, captured |-> captured,
     allowed |-> TRUE]

\* the same when should_call_seer_for_grouping did not return True
NotAllowed(ret, exc, ctx, data) ==
    [ret |-> ret, exc |-> exc, ctx |-> ctx, data |-> data, captured |-> <<>>,
     allowed |-> FALSE]

\* mutant: the exception is not caught
TryGetSeerSimilarIssues_NotCaught(ctx, ev, primary_hashes) ==
    LET r == get_seer_similar_issues(ctx, ev, primary_hashes)
    IN  IF r.exc = NoException
        THEN Handled(r.ret[2], NoException, r.ctx,
                     Put(ev.data, "seer_similarity", r.ret[1]), <<>>)
        ELSE Handled(None, r.exc, r.ctx, ev.data, <<>>)

\* mutant: the metadata is written only when a group was found
TryGetSeerSimilarIssues_OnlyOnMatch(ctx, ev, primary_hashes) ==
    LET r == get_seer_similar_issues(ctx, ev, primary_hashes)
    IN  IF r.exc = NoException
        THEN Handled(r.ret[2], NoException, r.ctx,
                     IF r.ret[2] # None
                     THEN Put(ev.data, "seer_similarity", r.ret[1])
                     ELSE ev.data,
                     <<>>)
        ELSE Handled(None, NoException, r.ctx, ev.data,
                     <<[exc |-> r.exc,
                        tags |-> [event |-> ev.event_id, project |-> ev.project.id]]>>)

\* mutant: the results are added to those already on the event
TryGetSeerSimilarIssues_Accumulate(ctx, ev, primary_hashes) ==
    LET r == get_seer_similar_issues(ctx, ev, primary_hashes)
        old == IF "seer_similarity" \in DOMAIN ev.data
               THEN ev.data["seer_similarity"].results ELSE <<>>
    IN  IF r.exc = NoException
        THEN Handled(r.ret[2], NoException, r.ctx,
                     Put(ev.data, "seer_similarity",
                         [r.ret[1] EXCEPT !.results = old \o @]), <<>>)
        ELSE Handled(None, NoException, r.ctx, ev.data,
                     <<[exc |-> r.exc,
                        tags |-> [event |-> ev.event_id, project |-> ev.project.id]]>>)

\* mutant: only the errors of the Seer request are caught
TryGetSeerSimilarIssues_SeerErrorsOnly(ctx, ev, primary_hashes) ==
    LET r == get_seer_similar_issues(ctx, ev, primary_hashes)
    IN  IF r.exc = NoException
        THEN Handled(r.ret[2], NoException, r.ctx,
                     Put(ev.data, "seer_similarity", r.ret[1]), <<>>)
        ELSE IF r.exc = "SeerError"
        THEN Handled(None, NoException, r.ctx, ev.data,
                     <<[exc |-> r.exc,
                        tags |-> [event |-> ev.event_id, project |-> ev.project.id]]>>)
        ELSE Handled(None, r.exc, r.ctx, ev.data, <<>>)

\* mutant: a failed attempt is made once more before giving up
TryGetSeerSimilarIssues_RetryOnce(ctx, ev, primary_hashes) ==
    LET first == get_seer_similar_issues(ctx, ev, primary_hashes)
        r == IF first.exc = NoException THEN first
             ELSE get_seer_similar_issues(first.ctx, ev, primary_hashes)
    IN  IF r.exc = NoException
        THEN Handled(r.ret[2], NoException, r.ctx,
                     Put(ev.data, "seer_similarity", r.ret[1]), <<>>)
        ELSE Handled(None, NoException, r.ctx, ev.data,
                     <<[exc |-> r.exc,
                        tags |-> [event |-> ev.event_id, project |-> ev.project.id]]>>)

\* mutant: a failed attempt is recorded on the circuit breaker
TryGetSeerSimilarIssues_RecordsFailure(ctx, ev, primary_hashes) ==
    LET r == get_seer_similar_issues(ctx, ev, primary_hashes)
    IN  IF r.exc = NoException
        THEN Handled(r.ret[2], NoException, r.ctx,
                     Put(ev.data, "seer_similarity", r.ret[1]), <<>>)
        ELSE Handled(None, NoException, [r.ctx EXCEPT !.breaker = "broken"], ev.data,
                     <<[exc |-> r.exc,
                        tags |-> [event |-> ev.event_id, project |-> ev.project.id]]>>)

\* the try statement of maybe_check_seer_for_matching_group
TryGetSeerSimilarIssues(ctx, ev, primary_hashes) ==
    LET r == get_seer_similar_issues(ctx, ev, primary_hashes)
    IN  IF r.exc = NoException
        THEN Handled(r.ret[2], NoException, r.ctx,
                     Put(ev.data, "seer_similarity", r.ret[1]), <<>>)
        ELSE Handled(None, NoException, r.ctx, ev.data,
                     <<[exc |-> r.exc,
                        tags |-> [event |-> ev.event_id, project |-> ev.project.id]]>>)

\* mutant: Seer is asked whatever the gate returned
maybe_check_seer_for_matching_group_GateIgnored(ctx, ev, primary_hashes) ==
    LET c0 == Called(ctx, [fn |-> "maybe_check_seer_for_matching_group"])
        gate == should_call_seer_for_grouping(c0, ev, primary_hashes)
        try == TryGetSeerSimilarIssues(gate.ctx, ev, primary_hashes)
    IN  IF gate.exc # NoException
        THEN NotAllowed(None, gate.exc, gate.ctx, ev.data)
        ELSE IF gate.ret
        THEN TryGetSeerSimilarIssues(
                metrics_incr(gate.ctx, DidCallSeer,
                             [call_made |-> TRUE, blocker |-> "none"]),
                ev, primary_hashes)
        ELSE NotAllowed(try.ret, NoException, try.ctx, try.data)

\* mutant: the gate is asked inside the try statement
maybe_check_seer_for_matching_group_GateInTry(ctx, ev, primary_hashes) ==
    LET c0 == Called(ctx, [fn |-> "maybe_check_seer_for_matching_group"])
        gate == should_call_seer_for_grouping(c0, ev, primary_hashes)
    IN  IF gate.exc # NoException
        THEN [NotAllowed(None, NoException, gate.ctx, ev.data) EXCEPT
                !.captured = <<[exc |-> gate.exc,
                                tags |-> [event |-> ev.event_id,
                                          project |-> ev.project.id]]>>]
        ELSE IF gate.ret
        THEN TryGetSeerSimilarIssues(
                metrics_incr(gate.ctx, DidCallSeer,
                             [call_made |-> TRUE, blocker |-> "none"]),
                ev, primary_hashes)
        ELSE NotAllowed(None, NoException, gate.ctx, ev.data)

\* mutant: the call_made counter is emitted before the gate is asked
maybe_check_seer_for_matching_group_CounterFirst(ctx, ev, primary_hashes) ==
    LET c0 == Called(ctx, [fn |-> "maybe_check_seer_for_matching_group"])
        c1 == metrics_incr(c0, DidCallSeer, [call_made |-> TRUE, blocker |-> "none"])
        gate == should_call_seer_for_grouping(c1, ev, primary_hashes)
    IN  IF gate.exc # NoException
        THEN NotAllowed(None, gate.exc, gate.ctx, ev.data)
        ELSE IF gate.ret
        THEN TryGetSeerSimilarIssues(gate.ctx, ev, primary_hashes)
        ELSE NotAllowed(None, NoException, gate.ctx, ev.data)

maybe_check_seer_for_matching_group(ctx, ev, primary_hashes) ==
    LET c0 == Called(ctx, [fn |-> "maybe_check_seer_for_matching_group"])
        gate == should_call_seer_for_grouping(c0, ev, primary_hashes)
    IN  IF gate.exc # NoException
        THEN NotAllowed(None, gate.exc, gate.ctx, ev.data)
        ELSE IF gate.ret
        THEN TryGetSeerSimilarIssues(
                metrics_incr(gate.ctx, DidCallSeer,
                             [call_made |-> TRUE, blocker |-> "none"]),
                ev, primary_hashes)
        ELSE NotAllowed(None, NoException, gate.ctx, ev.data)

-----------------------------------------------------------------------------
(* relay/config/experimental.py *)

\* the values a config builder returns: None, booleans, integers, dicts
\* (given by their keys)
PyValues ==
    {None, [bool |-> FALSE], [bool |-> TRUE], [int |-> 0], [int |-> 1],
     [dict |-> {}], [dict |-> {"rules"}]}

\* bool(v)
Truthy(v) ==
    IF v = None THEN FALSE
    ELSE IF "bool" \in DOMAIN v THEN v.bool
    ELSE IF "int" \in DOMAIN v THEN v.int # 0
    ELSE v.dict # {}

\* _FEATURE_BUILD_TIMEOUT, in seconds
_FEATURE_BUILD_TIMEOUT == 20

\* TimeChecker.check() after the given number of seconds
TimeChecker_check(hard_timeout, elapsed) ==
    IF hard_timeout <= 0 THEN NoException
    ELSE IF elapsed >= hard_timeout THEN "TimeoutException"
    ELSE NoException

\* a config builder: how long it runs, whether it checks the timeout at its
\* end, the exception it raises of its own, the value it returns
Builders ==
    [elapsed : {_FEATURE_BUILD_TIMEOUT - 1, _FEATURE_BUILD_TIMEOUT},
     checks : BOOLEAN,
     raises : {NoException, "ValueError"},
     result : PyValues]

\* function(timeout, *args, **kwargs)
CallBuilder(function, hard_timeout) ==
    IF function.raises # NoException
    THEN [ret |-> None, exc |-> function.raises]
    ELSE IF function.checks
            /\ TimeChecker_check(hard_timeout, function.elapsed) # NoException
    THEN [ret |-> None, exc |-> TimeChecker_check(hard_timeout, function.elapsed)]
    ELSE [ret |-> function.result, exc |-> NoException]

\* build_safe_config(key, function): the value returned, the exception that
\* leaves it, the messages logged
build_safe_config(key, function, default_return) ==
    LET r == CallBuilder(function, _FEATURE_BUILD_TIMEOUT)
    IN  IF r.exc = NoException
        THEN [ret |-> r.ret, exc |-> NoException, logged |-> <<>>]
        ELSE IF r.exc = "TimeoutException"
        THEN [ret |-> default_return, exc |-> NoException,
              logged |-> <<"Project config feature build timed out: %s">>]
        ELSE [ret |-> default_return, exc |-> NoException,
              logged |-> <<"Exception while building Relay project config field">>]

\* add_experimental_config(config, key, function): config as the call leaves
\* it, the exception that leaves the call, the messages logged
add_experimental_config(config, key, function) ==
    LET subconfig == build_safe_config(key, function, None)
    IN  [config |-> IF Truthy(subconfig.ret) THEN Put(config, key, subconfig.ret)
                    ELSE config,
         exc |-> subconfig.exc,
         logged |-> subconfig.logged]

\* the keys of the project config that experimental builders fill
ConfigKeys == {"metricExtraction", "sampling"}

\* an empty project config on which nothing was called yet
RelayStart == [config |-> EmptyDict, called |-> FALSE]

\* a builder's result is added to the project config
AddExperimentalConfig ==
    /\ \E key \in ConfigKeys, function \in Builders :
          LET r == add_experimental_config(relay.config, key, function)
          IN  relay' = [config |-> r.config, called |-> TRUE,
                        before |-> relay.config, key |-> key,
                        function |-> function, exc |-> r.exc,
                        logged |-> r.logged]
    /\ UNCHANGED <<event, hashes, killswitch, breaker, opts, limiter, groups,
                   seer, db, workers, out>>

-----------------------------------------------------------------------------
(* The handler as a step of the system *)

\* the context a call of the handler starts from
StartContext ==
    [limiter |-> limiter, breaker |-> breaker, metrics |-> <<>>, calls |-> <<>>]

\* no call of the handler was the last step
Idle == [kind |-> "idle"]

\* the handler is started only while the counters it may advance are in range
CountersInRange ==
    /\ limiter[GlobalKey] <= GlobalLimit
    /\ limiter[ProjectKey(event.project.id)] <= ProjectLimit

\* A worker runs the handler on the event.  out records what the call
\* returned or raised, what the gate returned, the metrics it emitted, the
\* functions it invoked in order, the exceptions it captured, and whether
\* the step before was a call as well; every other step sets out to Idle, so
\* that in a state where out.kind = "call" the collaborators' state is the
\* one the call saw, but for the counters and event.data the call changed.
CheckSeerForMatchingGroup ==
    /\ CountersInRange
    /\ LET h == maybe_check_seer_for_matching_group(StartContext, event, hashes)
       IN  /\ out' = [kind |-> "call", ret |-> h.ret, exc |-> h.exc,
                      allowed |-> h.allowed, repeat |-> out.kind = "call",
                      metrics |-> h.ctx.metrics, calls |-> h.ctx.calls,
                      captured |-> h.captured]
           /\ limiter' = h.ctx.limiter
           /\ breaker' = h.ctx.breaker
           /\ event' = [event EXCEPT !.data = h.data]
    /\ UNCHANGED <<hashes, killswitch, opts, groups, seer, db, relay, workers>>

-----------------------------------------------------------------------------
(* The environment *)

Projects == [id : ProjectIds, flag : BOOLEAN, backfilled : BOOLEAN]

Fingerprints == {<<DefaultToken>>, <<DefaultToken, "custom">>,
                 <<"custom", DefaultToken>>, <<"custom">>}

\* event.data of a new event: the "fingerprint" key may be missing
EventData == {EmptyDict} \cup {[fingerprint |-> f] : f \in Fingerprints}

EventIds == {"e1"}

Events == [event_id : EventIds, project : Projects, data : EventData, eligible : BOOLEAN]

FingerprintVariants ==
    [{"custom-fingerprint"} -> {[type |-> "custom-fingerprint"]}]
    \cup [{"built-in-fingerprint"} -> {[type |-> "built-in-fingerprint"]}]
    \cup [{"custom-fingerprint", "built-in-fingerprint"} ->
            {[type |-> "custom-fingerprint"], [type |-> "built-in-fingerprint"]}]

Variants == {EmptyDict} \cup
    {v \in FingerprintVariants : \A k \in DOMAIN v : v[k].type = k}

CalculatedHashes == [hashes : {<<"h1">>}, variants : Variants]

\* the candidates Seer can name, closest first
Candidates == {[parent_group_id |-> i, stacktrace_distance |-> i - 4] : i \in GroupIds}
SeerResults == {<<>>} \cup {<<c>> : c \in Candidates}
                \cup {<<c, d>> : c, d \in Candidates}
SeerAnswers == {[raises |-> TRUE, results |-> <<>>]}
               \cup {[raises |-> FALSE, results |-> r] : r \in SeerResults}

GroupTables == SUBSET {[id |-> i] : i \in GroupIds}

GoodOptions ==
    [o \in {"seer.similarity.global-rate-limit",
            "seer.similarity.per-project-rate-limit",
            "seer.similarity.circuit-breaker-config"} |->
        CASE o = "seer.similarity.global-rate-limit" ->
                [limit |-> GlobalLimit, window |-> 1]
          [] o = "seer.similarity.per-project-rate-limit" ->
                [limit |-> ProjectLimit, window |-> 1]
          [] OTHER -> [error_limit |-> 1]]

\* the option stores an operator can leave behind: the good one, and stores
\* whose rate-limit or circuit-breaker configuration lacks a key or has a
\* zero window
OptionStores ==
    {GoodOptions}
    \cup {[GoodOptions EXCEPT ![o] = c] :
            o \in {"seer.similarity.global-rate-limit"},
            c \in {[window |-> 1], [limit |-> GlobalLimit, window |-> 0]}}
    \cup {[GoodOptions EXCEPT ![o] = c] :
            o \in {"seer.similarity.per-project-rate-limit"},
            c \in {[limit |-> ProjectLimit], [limit |-> ProjectLimit, window |-> 0]}}
    \cup {[GoodOptions EXCEPT ![o] = c] :
            o \in {"seer.similarity.circuit-breaker-config"},
            c \in {[error_limit_window |-> 1]}}

\* an operator changes the options
OptionsChange ==
    /\ opts' \in OptionStores \ {opts}
    /\ out' = Idle
    /\ UNCHANGED <<event, hashes, killswitch, breaker, limiter, groups, seer, db, relay, workers>>

\* another worker's evaluation of another event counts an attempt on a key
OtherWorkerCounts ==
    /\ \E key \in LimiterKeys :
          /\ limiter[key] <= (IF key = GlobalKey THEN GlobalLimit ELSE ProjectLimit)
          /\ limiter' = [limiter EXCEPT ![key] = @ + 1]
    /\ out' = Idle
    /\ UNCHANGED <<event, hashes, killswitch, breaker, opts, groups, seer, db, relay, workers>>

\* the window of a rate-limit key ends
WindowExpires ==
    /\ \E key \in LimiterKeys :
          /\ limiter[key] > 0
          /\ limiter' = [limiter EXCEPT ![key] = 0]
    /\ out' = Idle
    /\ UNCHANGED <<event, hashes, killswitch, breaker, opts, groups, seer, db, relay, workers>>

\* an operator flips the killswitch
SetKillswitch ==
    /\ killswitch' = ~killswitch
    /\ out' = Idle
    /\ UNCHANGED <<event, hashes, breaker, opts, limiter, groups, seer, db, relay, workers>>

\* the circuit breaker trips or recovers (its history is written elsewhere)
BreakerChanges ==
    /\ breaker' = IF breaker = "ok" THEN "broken" ELSE "ok"
    /\ out' = Idle
    /\ UNCHANGED <<event, hashes, killswitch, opts, limiter, groups, seer, db, relay, workers>>

\* groups are created and deleted
GroupsChange ==
    /\ groups' \in GroupTables \ {groups}
    /\ out' = Idle
    /\ UNCHANGED <<event, hashes, killswitch, breaker, opts, limiter, seer, db, relay, workers>>

\* the Seer service answers differently from now on
SeerChanges ==
    /\ seer' \in SeerAnswers \ {seer}
    /\ out' = Idle
    /\ UNCHANGED <<event, hashes, killswitch, breaker, opts, limiter, groups, db, relay, workers>>

\* mutant: Seer is asked whatever the gate returned
CallStep_AfterAnyGate ==
    /\ out.kind = "gate_passed" \/ (out.kind = "call" /\ ~out.allowed)
    /\ LET h == TryGetSeerSimilarIssues(
                    metrics_incr([limiter |-> limiter, breaker |-> breaker,
                                  metrics |-> out.metrics, calls |-> out.calls],
                                 DidCallSeer, [call_made |-> TRUE, blocker |-> "none"]),
                    event, hashes)
       IN  /\ out' = [kind |-> "call", ret |-> h.ret, exc |-> h.exc,
                      allowed |-> TRUE, repeat |-> FALSE,
                      metrics |-> h.ctx.metrics, calls |-> h.ctx.calls,
                      captured |-> h.captured]
           /\ limiter' = h.ctx.limiter
           /\ breaker' = h.ctx.breaker
           /\ event' = [event EXCEPT !.data = h.data]
    /\ UNCHANGED <<hashes, killswitch, opts, groups, seer, db, relay, workers>>

(* The handler in two steps: the gate, then, if the gate returned True, the
   counter and the try statement. Between the two the evaluation has passed
   the gate and has not yet heard from Seer. *)
GateStep ==
    /\ out.kind = "idle"
    /\ CountersInRange
    /\ LET c0 == Called(StartContext, [fn |-> "maybe_check_seer_for_matching_group"])
           gate == should_call_seer_for_grouping(c0, event, hashes)
       IN  /\ out' = IF gate.exc = NoException /\ gate.ret
                     THEN [kind |-> "gate_passed",
                           metrics |-> gate.ctx.metrics, calls |-> gate.ctx.calls]
                     ELSE [kind |-> "call", ret |-> None, exc |-> gate.exc,
                           allowed |-> FALSE, repeat |-> FALSE,
                           metrics |-> gate.ctx.metrics, calls |-> gate.ctx.calls,
                           captured |-> <<>>]
           /\ limiter' = gate.ctx.limiter
           /\ breaker' = gate.ctx.breaker
    /\ UNCHANGED <<event, hashes, killswitch, opts, groups, seer, db, relay, workers>>

CallStep ==
    /\ out.kind = "gate_passed"
    /\ LET h == TryGetSeerSimilarIssues(
                    metrics_incr([limiter |-> limiter, breaker |-> breaker,
                                  metrics |-> out.metrics, calls |-> out.calls],
                                 DidCallSeer, [call_made |-> TRUE, blocker |-> "none"]),
                    event, hashes)
       IN  /\ out' = [kind |-> "call", ret |-> h.ret, exc |-> h.exc,
                      allowed |-> TRUE, repeat |-> FALSE,
                      metrics |-> h.ctx.metrics, calls |-> h.ctx.calls,
                      captured |-> h.captured]
           /\ limiter' = h.ctx.limiter
           /\ breaker' = h.ctx.breaker
           /\ event' = [event EXCEPT !.data = h.data]
    /\ UNCHANGED <<hashes, killswitch, opts, groups, seer, db, relay, workers>>

\* the fingerprint classifier alone is applied to the event and its hashes
ClassifyFingerprint ==
    /\ out.kind = "idle"
    /\ LET r == _has_customized_fingerprint(StartContext, event, hashes)
       IN  out' = [kind |-> "classify", ret |-> r.ret, exc |-> r.exc,
                   metrics |-> r.ctx.metrics, calls |-> r.ctx.calls]
    /\ UNCHANGED <<event, hashes, killswitch, breaker, opts, limiter, groups, seer, db, relay, workers>>

\* the database goes down or comes back
DbChanges ==
    /\ db' = IF db = "up" THEN "down" ELSE "up"
    /\ out' = Idle
    /\ UNCHANGED <<event, hashes, killswitch, breaker, opts, limiter, groups, seer, relay, workers>>

-----------------------------------------------------------------------------
(* Workers that run _ratelimiting_enabled side by side on the shared store.
   Each is_limited call is one atomic step; between the two calls of one
   worker the others, and the windows, move. *)

Workers == {"w1", "w2", "w3"}

\* a worker between events
IdleWorker == [pc |-> "idle", project |-> 0, fresh |-> TRUE]

\* all workers idle; of the present window of each key, nothing counted yet:
\* passedGlobal, the events the global scope let through; passedGate, the
\* events for which the gate returned True; admitted, those of them whose
\* global check fell into the present global window; passedProject, the
\* events of each project its scope let through
WorkersStart ==
    [procs |-> [w \in Workers |-> IdleWorker],
     passedGlobal |-> 0,
     passedGate |-> 0,
     admitted |-> 0,
     passedProject |-> [id \in ProjectIds |-> 0]]

\* a worker takes an event that passed the first five checks
StartEvaluation(w) ==
    /\ workers.procs[w].pc = "idle"
    /\ \E id \in ProjectIds :
          workers' = [workers EXCEPT
                        !.procs[w] = [pc |-> "global", project |-> id, fresh |-> TRUE]]
    /\ UNCHANGED <<event, hashes, killswitch, breaker, opts, limiter, groups,
                   seer, db, relay, out>>

\* mutant: the worker goes on to the project's scope whatever the global
\* scope answered
AskGlobal_AnswerIgnored(w) ==
    /\ workers.procs[w].pc = "global"
    /\ limiter[GlobalKey] <= GlobalLimit
    /\ LET global_ratelimit == options_get("seer.similarity.global-rate-limit")
           g == is_limited(StartContext, GlobalKey, global_ratelimit["limit"],
                           global_ratelimit["window"])
       IN  /\ limiter' = g.ctx.limiter
           /\ workers' = [workers EXCEPT !.procs[w].pc = "project",
                                         !.passedGlobal = @ + 1]
    /\ UNCHANGED <<event, hashes, killswitch, breaker, opts, groups, seer, db,
                   relay, out>>

\* the worker asks the global scope
AskGlobal(w) ==
    /\ workers.procs[w].pc = "global"
    /\ limiter[GlobalKey] <= GlobalLimit
    /\ LET global_ratelimit == options_get("seer.similarity.global-rate-limit")
           g == is_limited(StartContext, GlobalKey, global_ratelimit["limit"],
                           global_ratelimit["window"])
       IN  /\ limiter' = g.ctx.limiter
           /\ workers' = IF g.ret
                         THEN [workers EXCEPT !.procs[w] = IdleWorker]
                         ELSE [workers EXCEPT !.procs[w].pc = "project",
                                              !.passedGlobal = @ + 1]
    /\ UNCHANGED <<event, hashes, killswitch, breaker, opts, groups, seer, db,
                   relay, out>>

\* the worker asks the scope of the event's project; if it is not limited
\* the gate returns True
AskProject(w) ==
    /\ workers.procs[w].pc = "project"
    /\ limiter[ProjectKey(workers.procs[w].project)] <= ProjectLimit
    /\ LET per_project_ratelimit == options_get("seer.similarity.per-project-rate-limit")
           id == workers.procs[w].project
           p == is_limited(StartContext, ProjectKey(id),
                           per_project_ratelimit["limit"],
                           per_project_ratelimit["window"])
       IN  /\ limiter' = p.ctx.limiter
           /\ workers' = IF p.ret
                         THEN [workers EXCEPT !.procs[w] = IdleWorker]
                         ELSE [workers EXCEPT
                                 !.procs[w] = IdleWorker,
                                 !.passedGate = @ + 1,
                                 !.admitted = @ + (IF workers.procs[w].fresh
                                                   THEN 1 ELSE 0),
                                 !.passedProject[id] = @ + 1]
    /\ UNCHANGED <<event, hashes, killswitch, breaker, opts, groups, seer, db,
                   relay, out>>

\* the window of a key ends: its counter and its tallies start again, and a
\* worker that passed the global scope in the window that ended is no
\* longer of the present one
WindowRolls(key) ==
    /\ limiter' = [limiter EXCEPT ![key] = 0]
    /\ workers' =
          IF key = GlobalKey
          THEN [workers EXCEPT
                  !.procs = [w \in Workers |->
                               IF workers.procs[w].pc = "project"
                               THEN [workers.procs[w] EXCEPT !.fresh = FALSE]
                               ELSE workers.procs[w]],
                  !.passedGlobal = 0,
                  !.passedGate = 0,
                  !.admitted = 0]
          ELSE [workers EXCEPT
                  !.passedProject =
                     [id \in ProjectIds |->
                        IF key = ProjectKey(id) THEN 0 ELSE workers.passedProject[id]]]
    /\ UNCHANGED <<event, hashes, killswitch, breaker, opts, groups, seer, db,
                   relay, out>>

\* the state in which the handler receives an event
InitWith(E, H) ==
    /\ event \in E
    /\ hashes \in H
    /\ killswitch = FALSE
    /\ breaker = "ok"
    /\ opts = GoodOptions
    /\ limiter = [key \in LimiterKeys |-> 0]
    /\ groups = {[id |-> i] : i \in GroupIds}
    /\ seer = [raises |-> FALSE,
               results |-> <<[parent_group_id |-> 5, stacktrace_distance |-> 1],
                             [parent_group_id |-> 9, stacktrace_distance |-> 5]>>]
    /\ db = "up"
    /\ relay = RelayStart
    /\ workers = WorkersStart
    /\ out = Idle

(* Spec: every event and every state of the gate's collaborators, against a
   Seer service and a group table that do not change *)
Init == InitWith(Events, CalculatedHashes)

Next ==
    \/ CheckSeerForMatchingGroup
    \/ OtherWorkerCounts
    \/ WindowExpires
    \/ SetKillswitch
    \/ BreakerChanges

Spec == Init /\ [][Next]_vars

(* SpecResolve: events that all checks but the rate limiter let through,
   against every answer of Seer and every group table *)
PlainEvents ==
    {e \in Events : /\ e.data = [fingerprint |-> <<DefaultToken>>]
                    /\ e.eligible
                    /\ e.project.flag
                    /\ ~e.project.backfilled}

InitResolve == InitWith(PlainEvents, {h \in CalculatedHashes : h.variants = EmptyDict})

NextResolve ==
    \/ CheckSeerForMatchingGroup
    \/ OtherWorkerCounts
    \/ WindowExpires
    \/ GroupsChange
    \/ SeerChanges

SpecResolve == InitResolve /\ [][NextResolve]_vars

(* SpecFailures: events that all checks but the rate limiter let through,
   with or without a primary hash, against a Seer service and a database
   that can fail *)
InitFailures ==
    InitWith(PlainEvents, [hashes : {<<>>, <<"h1">>}, variants : {EmptyDict}])

NextFailures ==
    \/ CheckSeerForMatchingGroup
    \/ WindowExpires
    \/ SeerChanges
    \/ DbChanges
    \/ BreakerChanges

SpecFailures == InitFailures /\ [][NextFailures]_vars

(* SpecConfig: events that the first three checks let through, against
   every option store, the killswitch and the breaker *)
NextConfig ==
    \/ CheckSeerForMatchingGroup
    \/ OptionsChange
    \/ SetKillswitch
    \/ BreakerChanges
    \/ WindowExpires

SpecConfig == InitResolve /\ [][NextConfig]_vars

(* SpecSteps: one evaluation of one event, step by step, from every state
   of the collaborators; a step that can be taken is taken *)
StepEvents ==
    {e \in Events : /\ e.project.id = 1
                    /\ ~e.project.backfilled
                    /\ e.data = [fingerprint |-> <<DefaultToken>>]}

InitSteps ==
    /\ event \in StepEvents
    /\ hashes \in [hashes : {<<>>, <<"h1">>}, variants : {EmptyDict}]
    /\ killswitch \in BOOLEAN
    /\ breaker \in {"ok", "broken"}
    /\ opts \in OptionStores
    /\ limiter \in {[key \in LimiterKeys |-> 0],
                     [key \in LimiterKeys |-> IF key = GlobalKey THEN GlobalLimit ELSE 0]}
    /\ groups \in {{}, {[id |-> i] : i \in GroupIds}}
    /\ seer \in SeerAnswers
    /\ db \in {"up", "down"}
    /\ relay = RelayStart
    /\ workers = WorkersStart
    /\ out = Idle

NextSteps ==
    \/ GateStep
    \/ CallStep

SpecSteps ==
    InitSteps /\ [][NextSteps]_vars /\ WF_vars(GateStep) /\ WF_vars(CallStep)

(* SpecExperimental: every builder on every key of a project config that
   earlier builders have filled *)
SpecExperimental == InitResolve /\ [][AddExperimentalConfig]_vars

(* SpecWorkers: the workers on the shared rate limiter, in every interleaving
   of their steps and of the ends of the windows *)
NextWorkers ==
    \/ \E w \in Workers : StartEvaluation(w)
    \/ \E w \in Workers : AskGlobal(w)
    \/ \E w \in Workers : AskProject(w)
    \/ \E key \in LimiterKeys : WindowRolls(key)

InitWorkers ==
    InitWith({e \in PlainEvents : e.project.id = 1},
             {h \in CalculatedHashes : h.variants = EmptyDict})

SpecWorkers == InitWorkers /\ [][NextWorkers]_vars

\* the fingerprint classifier on every event and every set of variants
SpecFingerprint == Init /\ [][ClassifyFingerprint]_vars

-----------------------------------------------------------------------------
(* Vocabulary of the properties *)

\* the last step was a call of the handler / this step is one
Called_ == out.kind = "call"
IsCall == out'.kind = "call"

\* the state of the six checks before a call
ProjectEnabled == event.project.flag \/ event.project.backfilled
FingerprintCustomized ==
    LET fp == Get(event.data, "fingerprint", <<>>)
    IN  IF \E i \in 1..Len(fp) : fp[i] = DefaultToken
        THEN Len(fp) > 1
        ELSE DOMAIN hashes.variants \cap {"custom-fingerprint", "built-in-fingerprint"} # {}
ContentEligible == event.eligible
KillswitchActive == killswitch
BreakerBroken == breaker # "ok"
GlobalWouldLimit ==
    limiter[GlobalKey] + 1 > opts["seer.similarity.global-rate-limit"]["limit"]
ProjectWouldLimit ==
    limiter[ProjectKey(event.project.id)] + 1
        > opts["seer.similarity.per-project-rate-limit"]["limit"]

\* the last step applied the fingerprint classifier alone
Classified == out.kind = "classify"
Fingerprint == Get(event.data, "fingerprint", <<>>)
HasDefaultToken == \E i \in 1..Len(Fingerprint) : Fingerprint[i] = DefaultToken
FingerprintVariantKeys ==
    DOMAIN hashes.variants \cap {"custom-fingerprint", "built-in-fingerprint"}

\* the exception get_seer_similar_issues meets in the present environment
ExpectedFailure ==
    IF hashes.hashes = <<>> THEN "IndexError"
    ELSE IF seer.raises THEN "SeerError"
    ELSE IF seer.results # <<>> /\ db # "up" THEN "DatabaseError"
    ELSE NoException

\* the exceptions a call passed to sentry_sdk.capture_exception
CapturedExceptions(o) == [i \in 1..Len(o.captured) |-> o.captured[i].exc]

\* the requests a call sent to Seer, in order
IsSeerRequest(c) == c.fn = "get_similarity_data_from_seer"
SeerRequests(o) == SelectSeq(o.calls, IsSeerRequest)

\* the blocker tags of the did_call_seer counter
BlockerVocabulary ==
    {"none", "hybrid-fingerprint", "global-rate-limit", "project-rate-limit",
     "circuit-breaker"}
        \cup {hashes.variants[k].type : k \in FingerprintVariantKeys}

\* the one did_call_seer counter of a decision blocked at the given check
BlockedBy(blocker) == <<[call_made |-> FALSE, blocker |-> blocker]>>

\* the blocker the fingerprint check reports for the event
FingerprintBlocker ==
    IF HasDefaultToken THEN "hybrid-fingerprint"
    ELSE IF "custom-fingerprint" \in FingerprintVariantKeys
    THEN hashes.variants["custom-fingerprint"].type
    ELSE hashes.variants["built-in-fingerprint"].type

\* the exception the options raise when the rate limits are computed, and
\* when the circuit breaker is built
DivisionFailure(config) ==
    IF {"limit", "window"} \ DOMAIN config # {} THEN "KeyError"
    ELSE IF config["window"] = 0 THEN "ZeroDivisionError"
    ELSE NoException
RateLimitConfigFailure ==
    IF DivisionFailure(opts["seer.similarity.global-rate-limit"]) # NoException
    THEN DivisionFailure(opts["seer.similarity.global-rate-limit"])
    ELSE DivisionFailure(opts["seer.similarity.per-project-rate-limit"])
BreakerConfigFailure ==
    IF "error_limit" \in DOMAIN opts["seer.similarity.circuit-breaker-config"]
    THEN NoException ELSE "KeyError"

\* the lifecycle state of the evaluation; "RAISED" is the end of an
\* evaluation that raised an exception, which is none of the named states
TerminalStates ==
    {"GATE_BLOCKED", "CALL_SUCCEEDED_WITH_MATCH", "CALL_SUCCEEDED_NO_MATCH",
     "CALL_FAILED"}
Phase(o) ==
    IF o.kind = "idle" THEN "NOT_EVALUATED"
    ELSE IF o.kind = "gate_passed" THEN "GATE_PASSED"
    ELSE IF o.exc # NoException THEN "RAISED"
    ELSE IF ~o.allowed THEN "GATE_BLOCKED"
    ELSE IF o.captured # <<>> THEN "CALL_FAILED"
    ELSE IF o.ret # None THEN "CALL_SUCCEEDED_WITH_MATCH"
    ELSE "CALL_SUCCEEDED_NO_MATCH"

\* the first five checks pass and the options are sound, so that a call
\* reaches the rate limiter
ReachesLimiter ==
    /\ ProjectEnabled
    /\ ~FingerprintCustomized
    /\ ContentEligible
    /\ ~KillswitchActive
    /\ BreakerConfigFailure = NoException
    /\ ~BreakerBroken
    /\ RateLimitConfigFailure = NoException

\* the first five checks pass and the breaker is sound, but a rate-limit
\* configuration is not
ReachesBadLimiterConfig ==
    /\ ProjectEnabled
    /\ ~FingerprintCustomized
    /\ ContentEligible
    /\ ~KillswitchActive
    /\ BreakerConfigFailure = NoException
    /\ ~BreakerBroken
    /\ RateLimitConfigFailure # NoException

\* the functions a call invoked, and the keys it asked the rate limiter about
Invoked(o) == {o.calls[i].fn : i \in 1..Len(o.calls)}
LimitedKeys(o) == {o.calls[i].key : i \in {j \in 1..Len(o.calls) : o.calls[j].fn = "is_limited"}}
LookedUp(o) == {o.calls[i].id : i \in {j \in 1..Len(o.calls) : o.calls[j].fn = "Group.objects.filter"}}

\* a call that ended with the given exception: it came to no decision, sent
\* nothing to Seer, asked the rate limiter nothing and captured nothing
Propagated(o, exc) ==
    /\ o.exc = exc
    /\ ~o.allowed
    /\ SeerRequests(o) = <<>>
    /\ LimitedKeys(o) = {}
    /\ o.captured = <<>>

\* the tags of the did_call_seer counters a call emitted, in order
IsDidCallSeer(m) == m.name = DidCallSeer
Tags(m) == m.tags
DidCallSeerTags(o) == ListComp(Tags, SelectSeq(o.metrics, IsDidCallSeer))

\* the checks that come after the feature-enablement check
LaterChecks == {"_has_customized_fingerprint", "event_content_is_seer_eligible",
                "killswitch_enabled", "_circuit_breaker_broken", "CircuitBreaker",
                "should_allow_request", "_ratelimiting_enabled", "is_limited"}

HasMetadata(ev) == "seer_similarity" \in DOMAIN ev.data
Metadata(ev) == IF HasMetadata(ev) THEN ev.data["seer_similarity"] ELSE None

\* the ids the call looked up in the Group table, in order
IsLookup(c) == c.fn = "Group.objects.filter"
LookupId(c) == c.id
Lookups(o) == ListComp(LookupId, SelectSeq(o.calls, IsLookup))

\* the group of the table with the given id, or None
GroupWithId(id) == IF [id |-> id] \in groups THEN [id |-> id] ELSE None

-----------------------------------------------------------------------------
(* Properties *)

\* C1: a call of the handler advances a rate-limit counter (global or
\* per-project) only if, before the call, the event's project is enabled,
\* its fingerprint is not customized, its content is eligible, the killswitch
\* is inactive and the circuit breaker allows requests.
C1_RateLimitLast ==
    [][(IsCall /\ \E key \in LimiterKeys : limiter'[key] # limiter[key])
         => /\ ProjectEnabled
            /\ ~FingerprintCustomized
            /\ ContentEligible
            /\ ~KillswitchActive
            /\ ~BreakerBroken]_vars

\* a call asked the rate limiter about both scopes
C1_Witness ==
    /\ Called_
    /\ LimitedKeys(out) = {GlobalKey, ProjectKey(event.project.id)}

\* C2: should_call_seer_for_grouping returns True exactly when the project is
\* enabled (flag or backfill option), the fingerprint is not customized, the
\* content is eligible, the killswitch is inactive, the breaker allows
\* requests and neither rate-limit scope is over its limit with this attempt.
C2_AllowedIffAllSixPass ==
    [][IsCall =>
        (out'.allowed <=>
            /\ event.project.flag \/ event.project.backfilled
            /\ ~FingerprintCustomized
            /\ ContentEligible
            /\ ~KillswitchActive
            /\ ~BreakerBroken
            /\ ~GlobalWouldLimit
            /\ ~ProjectWouldLimit)]_vars

\* the gate let through an event of a project enabled by the backfill option only
C2_Witness ==
    /\ Called_
    /\ out.allowed
    /\ ~event.project.flag

\* C3: when neither the feature flag nor the backfill option is set, the gate
\* returns False and no later check is invoked: no metric is emitted and no
\* counter changes.
C3_DisabledStopsFirst ==
    [][(IsCall /\ ~ProjectEnabled)
         => /\ ~out'.allowed
            /\ Invoked(out') \cap LaterChecks = {}
            /\ out'.metrics = <<>>
            /\ limiter' = limiter]_vars

\* the handler ran on an event of a project that is not enabled, although
\* every later check would have blocked or counted
C3_Witness ==
    /\ Called_
    /\ ~ProjectEnabled
    /\ FingerprintCustomized
    /\ BreakerBroken

\* C4: when the global scope reports limited, the per-project limiter is not
\* invoked, the counter of the event's project is unchanged and the blocker
\* reported is "global-rate-limit".
C4_GlobalLimitedSkipsProject ==
    [][(IsCall /\ GlobalKey \in LimitedKeys(out') /\ GlobalWouldLimit)
         => /\ LimitedKeys(out') = {GlobalKey}
            /\ limiter'[ProjectKey(event.project.id)]
                  = limiter[ProjectKey(event.project.id)]
            /\ DidCallSeerTags(out')
                  = <<[call_made |-> FALSE, blocker |-> "global-rate-limit"]>>]_vars

\* the global scope reported limited for an event whose project was also
\* over its own limit
C4_Witness ==
    /\ Called_
    /\ GlobalKey \in LimitedKeys(out)
    /\ limiter[GlobalKey] > GlobalLimit
    /\ limiter[ProjectKey(event.project.id)] >= ProjectLimit

\* C5: when the breaker is broken and every other check would pass, the gate
\* returns False, the blocker reported is "circuit-breaker", Seer is not
\* called and the rate limiter is not consulted.
C5_BrokenBreakerBlocks ==
    [][(/\ IsCall
        /\ BreakerBroken
        /\ ProjectEnabled
        /\ ~FingerprintCustomized
        /\ ContentEligible
        /\ ~KillswitchActive
        /\ ~GlobalWouldLimit
        /\ ~ProjectWouldLimit)
         => /\ ~out'.allowed
            /\ out'.ret = None
            /\ DidCallSeerTags(out')
                  = <<[call_made |-> FALSE, blocker |-> "circuit-breaker"]>>
            /\ "get_similarity_data_from_seer" \notin Invoked(out')
            /\ {"_ratelimiting_enabled", "is_limited"} \cap Invoked(out') = {}
            /\ limiter' = limiter]_vars

\* a broken breaker alone stood between the event and Seer
C5_Witness ==
    /\ Called_
    /\ BreakerBroken
    /\ ProjectEnabled
    /\ ~FingerprintCustomized
    /\ ContentEligible
    /\ ~KillswitchActive
    /\ limiter[GlobalKey] < GlobalLimit
    /\ limiter[ProjectKey(event.project.id)] < ProjectLimit

\* C6: when the gate does not allow the event, the handler returns None,
\* makes no call to Seer, looks up no group and leaves event.data, and with
\* it "seer_similarity", as it was.
C6_BlockedLeavesEvent ==
    [][(IsCall /\ ~out'.allowed /\ out'.exc = NoException)
         => /\ out'.ret = None
            /\ "get_similarity_data_from_seer" \notin Invoked(out')
            /\ "Group.objects.filter" \notin Invoked(out')
            /\ event'.data = event.data]_vars

\* the gate blocked an event that carried metadata of an earlier call
C6_Witness ==
    /\ Called_
    /\ ~out.allowed
    /\ HasMetadata(event)

\* C7: when the gate passes and the Seer client raises, the handler returns
\* None, raises nothing, captures the exception exactly once and leaves
\* event.data as it was.
C7_SeerFailureIsNoMatch ==
    [][(IsCall /\ out'.allowed /\ seer.raises)
         => /\ "get_similarity_data_from_seer" \in Invoked(out')
            /\ out'.ret = None
            /\ out'.exc = NoException
            /\ Len(out'.captured) = 1
            /\ out'.captured[1].exc = "SeerError"
            /\ event'.data = event.data]_vars

\* Seer failed on an event that carried the metadata of an earlier call
C7_Witness ==
    /\ Called_
    /\ out.allowed
    /\ seer.raises
    /\ out.captured # <<>>
    /\ HasMetadata(event)

\* C8: when the call to Seer succeeds the handler returns the group whose id
\* is the first candidate's parent_group_id, or None when no such group
\* exists, after looking up that id and no other; with no candidate it
\* returns None and looks up nothing.
C8_FirstCandidateDecides ==
    (Called_ /\ out.allowed /\ ~seer.raises)
        => IF seer.results # <<>>
           THEN /\ Lookups(out) = <<seer.results[1].parent_group_id>>
                /\ out.ret = GroupWithId(seer.results[1].parent_group_id)
           ELSE /\ Lookups(out) = <<>>
                /\ out.ret = None

\* the group of the best candidate is gone while that of the second exists
C8_Witness ==
    /\ Called_
    /\ out.allowed
    /\ ~seer.raises
    /\ Len(seer.results) = 2
    /\ GroupWithId(seer.results[1].parent_group_id) = None
    /\ GroupWithId(seer.results[2].parent_group_id) # None
    /\ out.ret = None

\* C9: when the call to Seer succeeds, event.data["seer_similarity"] holds
\* the fixed model version and, under "results", one dict per candidate, all
\* of them, in the order Seer returned them, whether or not a group is found.
C9_MetadataWritten ==
    (Called_ /\ out.allowed /\ ~seer.raises)
        => /\ HasMetadata(event)
           /\ DOMAIN Metadata(event) = {"results", "similarity_model_version"}
           /\ Metadata(event)["similarity_model_version"] = SEER_SIMILARITY_MODEL_VERSION
           /\ Len(Metadata(event)["results"]) = Len(seer.results)
           /\ \A i \in 1..Len(seer.results) :
                 /\ DOMAIN Metadata(event)["results"][i] = DOMAIN seer.results[i]
                 /\ \A f \in DOMAIN seer.results[i] :
                       Metadata(event)["results"][i][f] = seer.results[i][f]

\* two candidates were written although the lookup of the first one missed
C9_Witness ==
    /\ Called_
    /\ out.allowed
    /\ ~seer.raises
    /\ Len(seer.results) = 2
    /\ seer.results[1] # seer.results[2]
    /\ out.ret = None

\* C10 as stated: a second call right after a first one, with the same
\* event, group table and Seer answer, leaves the same metadata on the event
\* and returns the same value.
C10_SecondCallSame ==
    [][(Called_ /\ IsCall)
         => /\ Metadata(event') = Metadata(event)
            /\ out'.ret = out.ret]_vars

\* C10 amended: a second call right after a first one, with the same event,
\* group table and Seer answer, leaves the same metadata on the event, and
\* returns the same value whenever the gate decides on it as on the first.
C10_SecondCallSameIfGateSame ==
    [][(Called_ /\ IsCall)
         => /\ Metadata(event') = Metadata(event)
            /\ (out'.allowed = out.allowed => out'.ret = out.ret)]_vars

\* a second call in a row passed the gate, wrote metadata and returned a group
C10_Witness ==
    /\ Called_
    /\ out.repeat
    /\ out.allowed
    /\ HasMetadata(event)
    /\ Metadata(event)["results"] # <<>>
    /\ out.ret # None

\* C11: when the fingerprint is the default token alone, the classifier
\* returns False and emits no metric, whatever the variants are.
C11_DefaultAloneNotCustomized ==
    (Classified /\ Fingerprint = <<DefaultToken>>)
        => /\ out.exc = NoException
           /\ out.ret = FALSE
           /\ out.metrics = <<>>

\* the default token alone was classified with a fingerprint variant present
C11_Witness ==
    /\ Classified
    /\ Fingerprint = <<DefaultToken>>
    /\ FingerprintVariantKeys # {}
    /\ out.ret = FALSE

\* C12: when the fingerprint holds the default token and at least one other
\* token, the classifier returns True and emits exactly one counter, with
\* blocker "hybrid-fingerprint", also when fingerprint variants are present.
C12_HybridBlocksAsHybrid ==
    (Classified /\ HasDefaultToken /\ Len(Fingerprint) > 1)
        => /\ out.exc = NoException
           /\ out.ret = TRUE
           /\ DidCallSeerTags(out)
                = <<[call_made |-> FALSE, blocker |-> "hybrid-fingerprint"]>>

\* a hybrid fingerprint whose default token is not first was classified with
\* a fingerprint variant present
C12_Witness ==
    /\ Classified
    /\ Fingerprint = <<"custom", DefaultToken>>
    /\ FingerprintVariantKeys # {}
    /\ out.ret = TRUE

\* C13 as stated: whenever a custom-fingerprint or built-in-fingerprint
\* variant is present, the classifier returns True with the type of a variant
\* that is present as the blocker.
C13_VariantBlocksAlways ==
    (Classified /\ FingerprintVariantKeys # {})
        => /\ out.ret = TRUE
           /\ \E k \in FingerprintVariantKeys :
                 DidCallSeerTags(out)
                   = <<[call_made |-> FALSE, blocker |-> hashes.variants[k].type]>>

\* C13: when the fingerprint does not hold the default token and a
\* custom-fingerprint or built-in-fingerprint variant is present, the
\* classifier returns True and emits exactly one counter whose blocker is the
\* type of the custom-fingerprint variant if there is one, else of the
\* built-in-fingerprint variant.
C13_VariantBlocksWithoutDefault ==
    (Classified /\ ~HasDefaultToken /\ FingerprintVariantKeys # {})
        => /\ out.exc = NoException
           /\ out.ret = TRUE
           /\ DidCallSeerTags(out)
                = <<[call_made |-> FALSE,
                     blocker |-> IF "custom-fingerprint" \in FingerprintVariantKeys
                                 THEN hashes.variants["custom-fingerprint"].type
                                 ELSE hashes.variants["built-in-fingerprint"].type]>>

\* an event without the default token was classified with both variants present
C13_Witness ==
    /\ Classified
    /\ ~HasDefaultToken
    /\ FingerprintVariantKeys = {"custom-fingerprint", "built-in-fingerprint"}
    /\ out.ret = TRUE

\* C14: a call of the handler whose gate returned True raises nothing; when
\* building the request (no primary hash), the Seer request or the group
\* lookup fails, that exception is passed to capture_exception once, the
\* call returns None and writes nothing on the event.
C14_NoRaiseAfterGate ==
    (Called_ /\ out.allowed)
        => /\ out.exc = NoException
           /\ ExpectedFailure # NoException
                => /\ CapturedExceptions(out) = <<ExpectedFailure>>
                   /\ out.ret = None
           /\ ExpectedFailure = NoException => out.captured = <<>>

\* a call passed the gate and its group lookup failed on the database
C14_Witness ==
    /\ Called_
    /\ out.allowed
    /\ CapturedExceptions(out) = <<"DatabaseError">>
    /\ out.exc = NoException
    /\ out.ret = None

\* C17: a call of the handler sends at most one request to Seer; when the
\* gate returned True, a primary hash exists and Seer fails, exactly one
\* request was sent and the call returns None without raising.
C17_NoRetry ==
    Called_
        => /\ Len(SeerRequests(out)) <= 1
           /\ (out.allowed /\ hashes.hashes # <<>> /\ seer.raises)
                => /\ Len(SeerRequests(out)) = 1
                   /\ out.ret = None
                   /\ out.exc = NoException

\* a call sent its one request to Seer, Seer failed and nothing was written
C17_Witness ==
    /\ Called_
    /\ out.allowed
    /\ seer.raises
    /\ Len(SeerRequests(out)) = 1
    /\ ~HasMetadata(event)
    /\ out.ret = None

\* C18: no call of the handler changes the state of the circuit breaker,
\* whether the gate blocks, the call finds a match or none, or the call fails.
C18_BreakerOnlyRead ==
    [][IsCall => breaker' = breaker]_vars

\* a call passed the gate and failed while the breaker allows requests
C18_Witness ==
    /\ Called_
    /\ out.allowed
    /\ out.captured # <<>>
    /\ breaker = "ok"

\* C19: every did_call_seer counter a call of the handler emits has a blocker
\* among "none", "hybrid-fingerprint", the type of a fingerprint variant of
\* the hashes, "global-rate-limit", "project-rate-limit" and
\* "circuit-breaker"; its call_made is true exactly when the blocker is
\* "none", and only when the gate returned True.
C19_TagVocabulary ==
    Called_
        => \A i \in 1..Len(DidCallSeerTags(out)) :
              LET tags == DidCallSeerTags(out)[i]
              IN  /\ tags.blocker \in BlockerVocabulary
                  /\ tags.call_made <=> tags.blocker = "none"
                  /\ tags.call_made => out.allowed

\* a call blocked by a built-in fingerprint emitted the variant's type
C19_Witness ==
    /\ Called_
    /\ ~out.allowed
    /\ DidCallSeerTags(out) = BlockedBy("built-in-fingerprint")

\* C20 as stated: every call that comes to a decision emits exactly one
\* did_call_seer counter, whose blocker is "none" exactly when the gate
\* returned True.
C20_EveryDecisionTagged ==
    (Called_ /\ out.exc = NoException)
        => /\ Len(DidCallSeerTags(out)) = 1
           /\ out.allowed <=> DidCallSeerTags(out)[1].blocker = "none"

\* C20: a call that comes to a decision emits the one counter with blocker
\* "none" when the gate returned True; when the fingerprint check, the circuit
\* breaker or a rate limit is the first check to fail it emits the one
\* counter naming that check; when the feature-enablement check, the
\* eligibility check or the killswitch is the first to fail it emits none.
C20_DecisionTaggedByCheck ==
    [][(IsCall /\ out'.exc = NoException) =>
        DidCallSeerTags(out') =
            IF ~ProjectEnabled THEN <<>>
            ELSE IF FingerprintCustomized THEN BlockedBy(FingerprintBlocker)
            ELSE IF ~ContentEligible THEN <<>>
            ELSE IF KillswitchActive THEN <<>>
            ELSE IF BreakerBroken THEN BlockedBy("circuit-breaker")
            ELSE IF GlobalWouldLimit THEN BlockedBy("global-rate-limit")
            ELSE IF ProjectWouldLimit THEN BlockedBy("project-rate-limit")
            ELSE <<[call_made |-> TRUE, blocker |-> "none"]>>]_vars

\* a call was blocked by the broken breaker and emitted the breaker's counter
C20_Witness ==
    /\ Called_
    /\ ~out.allowed
    /\ breaker # "ok"
    /\ DidCallSeerTags(out) = BlockedBy("circuit-breaker")

\* C15: when a call of the handler reaches the circuit-breaker check and the
\* breaker's configuration lacks a key, or reaches the rate-limit check and a
\* rate-limit configuration lacks a key or has a zero window, the call ends
\* with that exception: the gate returns nothing, nothing is captured, the
\* rate limiter is not asked and no request is sent to Seer.
C15_ConfigFailurePropagates ==
    (Called_ /\ ProjectEnabled /\ ~FingerprintCustomized /\ ContentEligible
        /\ ~KillswitchActive)
        => /\ BreakerConfigFailure # NoException
                => Propagated(out, BreakerConfigFailure)
           /\ (BreakerConfigFailure = NoException /\ ~BreakerBroken
                 /\ RateLimitConfigFailure # NoException)
                => Propagated(out, RateLimitConfigFailure)

\* a call ended with the division by the zero window of the per-project limit
C15_Witness ==
    /\ Called_
    /\ DivisionFailure(opts["seer.similarity.global-rate-limit"]) = NoException
    /\ DivisionFailure(opts["seer.similarity.per-project-rate-limit"])
         = "ZeroDivisionError"
    /\ out.exc = "ZeroDivisionError"
    /\ SeerRequests(out) = <<>>

\* C16 as stated: an evaluation that is no longer in NOT_EVALUATED or
\* GATE_PASSED is in one of the terminal states GATE_BLOCKED,
\* CALL_SUCCEEDED_WITH_MATCH, CALL_SUCCEEDED_NO_MATCH and CALL_FAILED.
C16_EndsInTerminalState ==
    Phase(out) \notin {"NOT_EVALUATED", "GATE_PASSED"}
        => Phase(out) \in TerminalStates

\* C16: every evaluation leaves NOT_EVALUATED and ends either in one of the
\* four terminal states or, when the options make the gate raise, with that
\* exception and in none of them; from GATE_PASSED it goes on to one of the
\* three terminal states of the call; it ends with an exception only when the
\* configuration of the breaker or of the rate limits is at fault, and once
\* it has ended its state changes no more.
C16_ReachesOneEnd ==
    /\ <>(Phase(out) \in TerminalStates \cup {"RAISED"})
    /\ (Phase(out) = "GATE_PASSED")
            ~> (Phase(out) \in TerminalStates \ {"GATE_BLOCKED"})
    /\ [](Phase(out) = "RAISED"
            => BreakerConfigFailure # NoException \/ RateLimitConfigFailure # NoException)
    /\ [][Phase(out) \in TerminalStates \cup {"RAISED"}
            => Phase(out') = Phase(out)]_vars

\* an evaluation passed the gate and ended with a matching group
C16_Witness ==
    /\ Phase(out) = "CALL_SUCCEEDED_WITH_MATCH"
    /\ Len(SeerRequests(out)) = 1

\* C23: a call of the handler that reaches the rate limiter advances the
\* global counter by one, advances the counter of the event's project by one
\* exactly when the global scope is not over its limit with this attempt, and
\* leaves the counters of the other projects as they are.
C23_CountersAdvance ==
    [][(IsCall /\ ReachesLimiter) =>
        /\ limiter'[GlobalKey] = limiter[GlobalKey] + 1
        /\ limiter'[ProjectKey(event.project.id)]
             = limiter[ProjectKey(event.project.id)]
                 + (IF GlobalWouldLimit THEN 0 ELSE 1)
        /\ \A id \in ProjectIds \ {event.project.id} :
              limiter'[ProjectKey(id)] = limiter[ProjectKey(id)]]_vars

\* a call was blocked by the per-project limit after it consumed a unit of
\* the global quota
C23_Witness ==
    /\ Called_
    /\ DidCallSeerTags(out) = BlockedBy("project-rate-limit")
    /\ LimitedKeys(out) = {GlobalKey, ProjectKey(event.project.id)}
    /\ limiter[GlobalKey] > 0

\* C24: a call of the handler emits at most one did_call_seer counter; a
\* customized fingerprint blocks with its own tag before eligibility is
\* looked at, an active killswitch blocks before the breaker is asked, a
\* broken breaker blocks with its tag before the rate limiter is asked, and a
\* global limit blocks with its tag before the project's scope is asked, also
\* when the project's scope would block too.
C24_FirstFailingCheckTags ==
    (Called_ /\ out.exc = NoException /\ ProjectEnabled)
        => /\ Len(DidCallSeerTags(out)) <= 1
           /\ FingerprintCustomized
                => /\ DidCallSeerTags(out) = BlockedBy(FingerprintBlocker)
                   /\ Invoked(out) \cap (LaterChecks \ {"_has_customized_fingerprint"}) = {}
           /\ (~FingerprintCustomized /\ ContentEligible /\ KillswitchActive)
                => /\ DidCallSeerTags(out) = <<>>
                   /\ Invoked(out) \cap {"_circuit_breaker_broken", "CircuitBreaker",
                                          "_ratelimiting_enabled", "is_limited"} = {}
           /\ (~FingerprintCustomized /\ ContentEligible /\ ~KillswitchActive
                 /\ BreakerBroken)
                => /\ DidCallSeerTags(out) = BlockedBy("circuit-breaker")
                   /\ Invoked(out) \cap {"_ratelimiting_enabled", "is_limited"} = {}
           /\ (~FingerprintCustomized /\ ContentEligible /\ ~KillswitchActive
                 /\ ~BreakerBroken /\ limiter[GlobalKey] > GlobalLimit)
                => /\ DidCallSeerTags(out) = BlockedBy("global-rate-limit")
                   /\ LimitedKeys(out) = {GlobalKey}

\* a call was blocked by the global limit while the project's scope was at
\* its limit too
C24_Witness ==
    /\ Called_
    /\ DidCallSeerTags(out) = BlockedBy("global-rate-limit")
    /\ limiter[ProjectKey(event.project.id)] >= ProjectLimit
    /\ LimitedKeys(out) = {GlobalKey}

\* C25: when a call of the handler reaches the rate-limit check and the
\* global or the per-project configuration lacks a key or has a zero window,
\* the call ends with that exception, the rate limiter is not asked and no
\* counter moves, also when the global scope is at its limit.
C25_ConfigCheckedBeforeCounting ==
    [][(IsCall /\ ReachesBadLimiterConfig) =>
        /\ out'.exc = RateLimitConfigFailure
        /\ LimitedKeys(out') = {}
        /\ limiter' = limiter]_vars

\* a call ended with the per-project configuration's exception while the
\* global scope was at its limit
C25_Witness ==
    /\ Called_
    /\ DivisionFailure(opts["seer.similarity.global-rate-limit"]) = NoException
    /\ out.exc = DivisionFailure(opts["seer.similarity.per-project-rate-limit"])
    /\ out.exc # NoException
    /\ limiter[GlobalKey] = GlobalLimit

\* C21: after a call of add_experimental_config whose builder returned a
\* value other than None without raising, config[key] is that value; after a
\* call whose builder returned None or raised, nothing leaves the call, a
\* message is logged for the exception and config is as it was.
C21_SetUnlessNoneOrRaised ==
    relay.called
        => LET r == CallBuilder(relay.function, _FEATURE_BUILD_TIMEOUT)
           IN  /\ relay.exc = NoException
               /\ (r.exc = NoException /\ r.ret # None)
                    => /\ relay.key \in DOMAIN relay.config
                       /\ relay.config[relay.key] = r.ret
               /\ (r.exc # NoException \/ r.ret = None)
                    => relay.config = relay.before
               /\ r.exc # NoException <=> relay.logged # <<>>

\* C22 as stated: in every interleaving, the events for which the gate
\* returned True within the present global window are no more than the
\* global limit, and the events of each project for which it returned True
\* within the project's present window are no more than the per-project limit.
C22_PassesWithinLimits ==
    /\ workers.passedGate <= GlobalLimit
    /\ \A id \in ProjectIds : workers.passedProject[id] <= ProjectLimit

\* C22: in every interleaving, the events the global scope let through
\* within its present window, and so the events for which the gate returned
\* True after a global check within that window, are no more than the global
\* limit; the events of each project for which the gate returned True within
\* the project's present window are no more than the per-project limit.
C22_ChecksWithinLimits ==
    /\ workers.passedGlobal <= GlobalLimit
    /\ workers.admitted <= workers.passedGlobal
    /\ \A id \in ProjectIds : workers.passedProject[id] <= ProjectLimit

\* the global limit's worth of events passed the gate within one window, by
\* workers that ran side by side
C22_Witness ==
    /\ workers.admitted = GlobalLimit
    /\ workers.passedGate = GlobalLimit
    /\ limiter[GlobalKey] > GlobalLimit

====
